---- MODULE Spec2Model ----
(***************************************************************************)
(* Model of the API client wrapper (axiosInstance, fallbackAxiosInstance,  *)
(* their interceptors, testBackendConnection, axiosWithFallback) and of    *)
(* the routing of the proxy/static server (server.js).                     *)
(*                                                                         *)
(* An HTTP call settles with an "outcome", named by a string; Status,      *)
(* Code, Message and Data give the fields of the response or of the        *)
(* AxiosError the call settles with.  Messages are tuples of characters so *)
(* that String.prototype.includes is a real substring test.                *)
(***************************************************************************)
EXTENDS Integers, Sequences, FiniteSets, TLC

\* Number of axiosWithFallback operations (get or post) the callers issue.
MaxOps == 2

\* Number of requests the proxy/static server receives.
MaxReqs == 2

Ops == 1..MaxOps

Reqs == 1..MaxReqs

VARIABLES isProduction, storage, href, ops, probe, server

vars == <<isProduction, storage, href, ops, probe, server>>

-----------------------------------------------------------------------------
(* localStorage *)

\* What localStorage.getItem returns for a key that is not stored.
Null == "<null>"

\* The authorization-token header is not set on the request.
NoHeader == "<no header>"

Keys == {"accessToken", "storeUserAccessToken", "refreshToken"}

getItem(st, key) == st[key]

removeItem(st, key) == [st EXCEPT ![key] = Null]

\* JavaScript truthiness of a string-or-null value: null and "" are falsy.
Truthy(v) == v # Null /\ v # ""

-----------------------------------------------------------------------------
(* Outcomes of an HTTP call *)

ServerResponses ==
  {"r200", "r200_2003", "health200", "r400_2003", "r400_result", "r400_plain",
   "r401", "r403", "r404", "r500", "r500_2003"}

NoResponses == {"netErr", "corsErr", "blockedErr", "timeout", "probeTimeout"}

\* HTTP status of the response; 0 when no response was received
\* (error.response is undefined).
Status(o) ==
  CASE o \in {"r200", "r200_2003", "health200"} -> 200
    [] o \in {"r400_2003", "r400_result", "r400_plain"} -> 400
    [] o = "r401" -> 401
    [] o = "r403" -> 403
    [] o = "r404" -> 404
    [] o \in {"r500", "r500_2003"} -> 500
    [] OTHER -> 0

\* error.code of the AxiosError the call rejects with.
Code(o) ==
  CASE o = "netErr" -> "ERR_NETWORK"
    [] o \in {"timeout", "probeTimeout"} -> "ECONNABORTED"
    [] Status(o) \in 400..499 -> "ERR_BAD_REQUEST"
    [] Status(o) \in 500..599 -> "ERR_BAD_RESPONSE"
    [] OTHER -> ""

StatusDigits(s) ==
  CASE s = 400 -> <<"4","0","0">>
    [] s = 401 -> <<"4","0","1">>
    [] s = 403 -> <<"4","0","3">>
    [] s = 404 -> <<"4","0","4">>
    [] s = 500 -> <<"5","0","0">>
    [] OTHER -> <<>>

\* error.message of the AxiosError the call rejects with.
Message(o) ==
  CASE o = "netErr" -> <<"N","e","t","w","o","r","k"," ","E","r","r","o","r">>
    [] o = "corsErr" ->
         <<"C","O","R","S"," ","r","e","q","u","e","s","t"," ","d","i","d"," ",
           "n","o","t"," ","s","u","c","c","e","e","d">>
    [] o = "blockedErr" ->
         <<"R","e","q","u","e","s","t"," ","b","l","o","c","k","e","d"," ",
           "b","y"," ","c","l","i","e","n","t">>
    [] o = "timeout" ->
         <<"t","i","m","e","o","u","t"," ","o","f"," ","1","5","0","0","0",
           "m","s"," ","e","x","c","e","e","d","e","d">>
    [] o = "probeTimeout" ->
         <<"t","i","m","e","o","u","t"," ","o","f"," ","5","0","0","0",
           "m","s"," ","e","x","c","e","e","d","e","d">>
    [] Status(o) >= 400 ->
         <<"R","e","q","u","e","s","t"," ","f","a","i","l","e","d"," ",
           "w","i","t","h"," ","s","t","a","t","u","s"," ","c","o","d","e"," ">>
           \o StatusDigits(Status(o))
    [] OTHER -> <<>>

\* response.data: "result2003" is a body whose result.result_code is 2003,
\* "result" a body with a result object carrying another code, "plain" a
\* body without a result field, "none" no response at all.
Data(o) ==
  CASE o \in {"r200_2003", "r400_2003", "r500_2003"} -> "result2003"
    [] o \in {"r200", "r400_result"} -> "result"
    [] o \in ServerResponses -> "plain"
    [] OTHER -> "none"

\* String.prototype.includes
Includes(msg, needle) ==
  \E i \in 1..(Len(msg) - Len(needle) + 1) :
    SubSeq(msg, i, i + Len(needle) - 1) = needle

CORS == <<"C","O","R","S">>

blocked == <<"b","l","o","c","k","e","d">>

\* A settled promise.
Fulfilled(o) == [kind |-> "fulfilled", value |-> o]

Rejected(o) == [kind |-> "rejected", value |-> o]

Pending == [kind |-> "pending", value |-> "-"]

\* axios settles a call by its default validateStatus: a 2xx response
\* fulfils, every other response and every transport failure rejects.
AxiosSettle(o) ==
  IF Status(o) >= 200 /\ Status(o) < 300 THEN Fulfilled(o) ELSE Rejected(o)

-----------------------------------------------------------------------------
(* Interceptors *)

\* Faulty variant of addRequestInterceptor: the store user's token is looked
\* up first.
addRequestInterceptor_storeFirst(st) ==
  LET token == getItem(st, "storeUserAccessToken")
      token2 == IF ~Truthy(token) THEN getItem(st, "accessToken") ELSE token
  IN  IF Truthy(token2) THEN token2 ELSE NoHeader

\* The request interceptor installed on both instances: the value of the
\* authorization-token header it leaves on the request.
addRequestInterceptor(st) ==
  LET token == getItem(st, "accessToken")
      token2 == IF ~Truthy(token) THEN getItem(st, "storeUserAccessToken")
                ELSE token
  IN  IF Truthy(token2) THEN token2 ELSE NoHeader

\* The response interceptor of axiosInstance, success handler.
responseFulfilled(settled) == settled

\* Faulty variant of responseRejected: refreshToken is left in localStorage.
responseRejected_keepsRefresh(st, loc, settled) ==
  IF Status(settled.value) = 401
  THEN [storage |-> removeItem(st, "accessToken"),
        removed |-> <<"accessToken">>,
        href    |-> "/auth/login",
        navs    |-> <<"/auth/login">>,
        settled |-> Rejected(settled.value)]
  ELSE [storage |-> st,
        removed |-> <<>>,
        href    |-> loc,
        navs    |-> <<>>,
        settled |-> Rejected(settled.value)]

\* Faulty variant of responseRejected: every error response, whatever its
\* status, is handled as an authentication failure.
responseRejected_anyStatus(st, loc, settled) ==
  IF Status(settled.value) >= 400
  THEN [storage |-> removeItem(removeItem(st, "accessToken"), "refreshToken"),
        removed |-> <<"accessToken", "refreshToken">>,
        href    |-> "/auth/login",
        navs    |-> <<"/auth/login">>,
        settled |-> Rejected(settled.value)]
  ELSE [storage |-> st,
        removed |-> <<>>,
        href    |-> loc,
        navs    |-> <<>>,
        settled |-> Rejected(settled.value)]

\* The response interceptor of axiosInstance, error handler: localStorage
\* and window.location.href as it leaves them, the removeItem calls and the
\* assignments of href it makes, and the promise it returns.
responseRejected(st, loc, settled) ==
  IF Status(settled.value) = 401
  THEN [storage |-> removeItem(removeItem(st, "accessToken"), "refreshToken"),
        removed |-> <<"accessToken", "refreshToken">>,
        href    |-> "/auth/login",
        navs    |-> <<"/auth/login">>,
        settled |-> Rejected(settled.value)]
  ELSE [storage |-> st,
        removed |-> <<>>,
        href    |-> loc,
        navs    |-> <<>>,
        settled |-> Rejected(settled.value)]

\* A call on axiosInstance settling with outcome o, through its response
\* interceptor.
PrimaryPipeline(st, loc, o) ==
  LET s == AxiosSettle(o)
  IN  IF s.kind = "fulfilled"
      THEN [storage |-> st, removed |-> <<>>, href |-> loc, navs |-> <<>>,
            settled |-> responseFulfilled(s)]
      ELSE responseRejected(st, loc, s)

\* A call on fallbackAxiosInstance settling with outcome o: that instance has
\* no response interceptor.
FallbackPipeline(st, loc, o) ==
  [storage |-> st, removed |-> <<>>, href |-> loc, navs |-> <<>>,
   settled |-> AxiosSettle(o)]

\* What the handling of one settled call did to localStorage and to
\* window.location.
Effects(r) == [removed |-> r.removed, navs |-> r.navs]

NoEffects == [removed |-> <<>>, navs |-> <<>>]

\* A 401 response has been handled: the page is on its way to the login route.
Handled401 == href = "/auth/login"

-----------------------------------------------------------------------------
(* axiosWithFallback *)

\* Outcomes the environment may give the primary hop of get or post.
HopOutcomes ==
  {"r200", "netErr", "corsErr", "blockedErr", "timeout", "r401", "r500"}

\* Outcomes the environment may give the fallback hop (a direct call of the
\* backend origin).
FallbackOutcomes == {"r200", "netErr", "timeout", "r401", "r500"}

\* Faulty variant of getShouldRetry: the production flag is not tested.
getShouldRetry_anyMode(error, prod) ==
  Code(error) = "ERR_NETWORK" \/ Includes(Message(error), CORS)
    \/ Includes(Message(error), blocked)

\* The retry test in the catch block of get.
getShouldRetry(error, prod) ==
  (Code(error) = "ERR_NETWORK" \/ Includes(Message(error), CORS)
     \/ Includes(Message(error), blocked)) /\ prod

\* Faulty variant of postShouldRetry: the message is not searched for
\* "blocked".
postShouldRetry_noBlocked(error, prod) ==
  (Code(error) = "ERR_NETWORK" \/ Includes(Message(error), CORS)) /\ prod

\* The retry test in the catch block of post.
postShouldRetry(error, prod) ==
  (Code(error) = "ERR_NETWORK" \/ Includes(Message(error), CORS)
     \/ Includes(Message(error), blocked)) /\ prod

ShouldRetry(method, error, prod) ==
  IF method = "get" THEN getShouldRetry(error, prod)
  ELSE postShouldRetry(error, prod)

IdleOp ==
  [pc |-> "idle", method |-> "-",
   nPrimary |-> 0, nFallback |-> 0,
   pHeader |-> "-", fHeader |-> "-",
   pAfter401 |-> FALSE, fAfter401 |-> FALSE,
   pEffects |-> NoEffects, fEffects |-> NoEffects,
   pOutcome |-> "-", fOutcome |-> "-",
   primary |-> Pending, fallback |-> Pending, result |-> Pending]

\* The promise of the operation has been handed to its caller and the
\* operation is over.
ClosedOp == [IdleOp EXCEPT !.pc = "closed"]

\* A response has arrived and the promise reactions it triggers (response
\* interceptor, the wrapper's continuation, the caller's continuation) have
\* not all run yet.  They are microtasks: they run to completion before the
\* event loop takes the next network event.  A new call made meanwhile only
\* reads localStorage, which the reactions after the interceptor do not
\* write, so it is taken after them.
InReaction ==
  \/ \E i \in Ops : ops[i].pc \in {"psettled", "fsettled", "done"}
  \/ probe.pc \in {"settled", "done"}

\* The try block up to the await: the request interceptor runs and the
\* request is dispatched on axiosInstance.
CallPrimary(i, method) ==
  /\ ~InReaction
  /\ ops[i].pc = "idle"
  /\ \A j \in Ops : j < i => ops[j].pc # "idle"
  /\ ops' = [ops EXCEPT ![i] =
       [@ EXCEPT !.pc = "primary", !.method = method,
                 !.nPrimary = @ + 1,
                 !.pHeader = addRequestInterceptor(storage),
                 !.pAfter401 = Handled401]]
  /\ UNCHANGED <<server, isProduction, storage, href, probe>>

get(i) == CallPrimary(i, "get")

post(i) == CallPrimary(i, "post")

\* The primary call settles; the response interceptor of axiosInstance runs.
PrimarySettles(i, o) ==
  /\ ~InReaction
  /\ ops[i].pc = "primary"
  /\ LET r == PrimaryPipeline(storage, href, o)
     IN  /\ storage' = r.storage
         /\ href' = r.href
         /\ ops' = [ops EXCEPT ![i] = [@ EXCEPT !.pc = "psettled",
                                                !.pOutcome = o,
                                                !.primary = r.settled,
                                                !.pEffects = Effects(r)]]
  /\ UNCHANGED <<server, isProduction, probe>>

\* "return await axiosInstance.get/post(...)" with the call fulfilled.
PrimaryReturn(i) ==
  /\ ops[i].pc = "psettled"
  /\ ops[i].primary.kind = "fulfilled"
  /\ ops' = [ops EXCEPT ![i] = [@ EXCEPT !.pc = "done",
                                         !.result = ops[i].primary]]
  /\ UNCHANGED <<server, isProduction, storage, href, probe>>

\* Faulty variant of CatchRetry: the retry reuses the header of the primary
\* request instead of running the request interceptor again.
CatchRetry_sameHeader(i) ==
  /\ ops[i].pc = "psettled"
  /\ ops[i].primary.kind = "rejected"
  /\ ShouldRetry(ops[i].method, ops[i].primary.value, isProduction)
  /\ ops' = [ops EXCEPT ![i] =
       [@ EXCEPT !.pc = "fallback",
                 !.nFallback = @ + 1,
                 !.fHeader = ops[i].pHeader,
                 !.fAfter401 = Handled401]]
  /\ UNCHANGED <<server, isProduction, storage, href, probe>>

\* The catch block, retry test true: the request is dispatched on
\* fallbackAxiosInstance, through its request interceptor.
CatchRetry(i) ==
  /\ ops[i].pc = "psettled"
  /\ ops[i].primary.kind = "rejected"
  /\ ShouldRetry(ops[i].method, ops[i].primary.value, isProduction)
  /\ ops' = [ops EXCEPT ![i] =
       [@ EXCEPT !.pc = "fallback",
                 !.nFallback = @ + 1,
                 !.fHeader = addRequestInterceptor(storage),
                 !.fAfter401 = Handled401]]
  /\ UNCHANGED <<server, isProduction, storage, href, probe>>

\* Faulty variant of CatchThrow: the catch block ends without rethrowing, and
\* the operation is over with nothing delivered to the caller.
CatchThrow_swallows(i) ==
  /\ ops[i].pc = "psettled"
  /\ ops[i].primary.kind = "rejected"
  /\ ~ShouldRetry(ops[i].method, ops[i].primary.value, isProduction)
  /\ ops' = [ops EXCEPT ![i] = ClosedOp]
  /\ UNCHANGED <<server, isProduction, storage, href, probe>>

\* The catch block, retry test false: "throw error".
CatchThrow(i) ==
  /\ ops[i].pc = "psettled"
  /\ ops[i].primary.kind = "rejected"
  /\ ~ShouldRetry(ops[i].method, ops[i].primary.value, isProduction)
  /\ ops' = [ops EXCEPT ![i] = [@ EXCEPT !.pc = "done",
                                         !.result = ops[i].primary]]
  /\ UNCHANGED <<server, isProduction, storage, href, probe>>

\* The fallback call settles.
FallbackSettles(i, o) ==
  /\ ~InReaction
  /\ ops[i].pc = "fallback"
  /\ LET r == FallbackPipeline(storage, href, o)
     IN  /\ storage' = r.storage
         /\ href' = r.href
         /\ ops' = [ops EXCEPT ![i] = [@ EXCEPT !.pc = "fsettled",
                                                !.fOutcome = o,
                                                !.fallback = r.settled,
                                                !.fEffects = Effects(r)]]
  /\ UNCHANGED <<server, isProduction, probe>>

\* Faulty variant of FallbackOutcome: when the fallback call fails too, the
\* primary error is thrown.
FallbackOutcome_primaryError(primary, fallback) ==
  IF fallback.kind = "rejected" THEN primary ELSE fallback

\* What the inner try/catch makes of the settled fallback call:
\* "return fallbackResult" or "throw fallbackError".
FallbackOutcome(primary, fallback) == fallback

\* Faulty variant of FallbackReturn: a failed fallback call is tried again.
FallbackReturn_again(i) ==
  /\ ops[i].pc = "fsettled"
  /\ ops' = [ops EXCEPT ![i] =
       IF ops[i].fallback.kind = "rejected"
       THEN [@ EXCEPT !.pc = "fallback", !.nFallback = @ + 1]
       ELSE [@ EXCEPT !.pc = "done", !.result = ops[i].fallback]]
  /\ UNCHANGED <<server, isProduction, storage, href, probe>>

FallbackReturn(i) ==
  /\ ops[i].pc = "fsettled"
  /\ ops' = [ops EXCEPT ![i] =
       [@ EXCEPT !.pc = "done",
                 !.result = FallbackOutcome(ops[i].primary, ops[i].fallback)]]
  /\ UNCHANGED <<server, isProduction, storage, href, probe>>

\* The caller's continuation receives the settled promise of the operation.
CallerReceives(i) ==
  /\ ops[i].pc = "done"
  /\ ops' = [ops EXCEPT ![i] = ClosedOp]
  /\ UNCHANGED <<server, isProduction, storage, href, probe>>

-----------------------------------------------------------------------------
(* The proxy/static server: which handler answers a request *)

StaticFiles == {<<"assets", "app.js">>}

ServerRoute(method, path) ==
  IF method \in {"GET", "HEAD"} /\ path = <<"health">> THEN "health"
  ELSE IF path # <<>> /\ path[1] = "api" THEN "proxyApi"
  ELSE IF path # <<>> /\ path[1] = "open-api" THEN "proxyOpenApi"
  ELSE IF method \in {"GET", "HEAD"} /\ path \in StaticFiles THEN "static"
  ELSE IF method \in {"GET", "HEAD"} THEN "index"
  ELSE "notFound"

\* Responses the backend origin may give a request it receives.
BackendResponses ==
  {"r200", "r200_2003", "r400_2003", "r400_result", "r400_plain",
   "r401", "r403", "r404", "r500", "r500_2003"}

\* What a client receives from the server for a request, given whether the
\* backend origin answers.
ServerAnswers(method, path, backendUp) ==
  LET route == ServerRoute(method, path)
  IN  CASE route = "health" -> {"health200"}
        [] route \in {"proxyApi", "proxyOpenApi"} ->
             IF backendUp THEN BackendResponses ELSE {"r500"}
        [] route \in {"static", "index"} -> {"r200"}
        [] OTHER -> {"r404"}

-----------------------------------------------------------------------------
(* The proxy/static server: handling of a request *)

\* Requests the server is sent.
Methods == {"GET", "HEAD", "POST", "DELETE"}

Paths ==
  {<<"health">>, <<"api", "orders">>, <<"open-api", "login">>,
   <<"assets", "app.js">>, <<"some", "client", "route">>}

\* Bodies sent with Content-Type: application/json; "none" is a request
\* without a body.
BodyKinds == {"none", "json", "malformed"}

\* The bytes of the body as sent: { "a": "<e acute>" } and {bad.
\* "U+00E9" stands for the one character e acute, two bytes in UTF-8.
RawBody(b) ==
  CASE b = "json" ->
         <<"{", " ", "\"", "a", "\"", ":", " ", "\"", "U+00E9", "\"", " ", "}">>
    [] b = "malformed" -> <<"{", "b", "a", "d">>
    [] OTHER -> <<>>

RECURSIVE byteLength(_)
\* Buffer.byteLength of a string, in UTF-8.
byteLength(text) ==
  IF text = <<>> THEN 0
  ELSE (IF Head(text) = "U+00E9" THEN 2 ELSE 1) + byteLength(Tail(text))

RECURSIVE StripSpaces(_)
StripSpaces(text) ==
  IF text = <<>> THEN <<>>
  ELSE IF Head(text) = " " THEN StripSpaces(Tail(text))
  ELSE <<Head(text)>> \o StripSpaces(Tail(text))

\* JSON.parse of an object literal: a syntax error unless the text is closed
\* by a brace; the value is kept as its text without insignificant spaces.
JSONparse(text) ==
  IF Len(text) >= 2 /\ text[1] = "{" /\ text[Len(text)] = "}"
  THEN [error |-> FALSE, value |-> StripSpaces(text)]
  ELSE [error |-> TRUE, value |-> <<>>]

\* JSON.stringify of a parsed value.
JSONstringify(value) == value

EmptyObject == <<"{", "}">>

\* express.json(): req.body after the middleware, or the error it passes to
\* next(); "consumed" tells whether it has read the request stream.
expressJson(b) ==
  IF b = "none"
  THEN [error |-> FALSE, body |-> EmptyObject, consumed |-> FALSE]
  ELSE LET parsed == JSONparse(RawBody(b))
       IN  [error |-> parsed.error, body |-> parsed.value, consumed |-> TRUE]

\* What the proxy sends upstream when no onProxyReq hook writes a body: the
\* incoming headers, and the incoming stream piped, which gives nothing once
\* a body parser has read it.
Piped(b, consumed) ==
  [contentLength |-> byteLength(RawBody(b)),
   written |-> IF consumed THEN <<>> ELSE RawBody(b)]

\* onProxyReq of the /api proxy: only the Content-Type header is set.
apiOnProxyReq(method, b, parsed) == Piped(b, parsed.consumed)

\* onProxyReq of the /open-api proxy: on POST the body is written again.
\* (req.body is an object, hence truthy, for every request that passed
\* express.json.)
openApiOnProxyReq(method, b, parsed) ==
  IF method = "POST"
  THEN LET bodyData == JSONstringify(parsed.body)
       IN  [contentLength |-> byteLength(bodyData), written |-> bodyData]
  ELSE Piped(b, parsed.consumed)

\* The upstream has received the whole request it was announced.
Complete(up) == byteLength(up.written) = up.contentLength

NoUpstream == [contentLength |-> 0, written |-> <<>>]

Response(status, payload) == [status |-> status, payload |-> payload]

\* Faulty variant of ServerRouteInDist: static hosting is looked up before
\* the proxies.
ServerRouteInDist_staticFirst(method, path, distExists) ==
  IF method \in {"GET", "HEAD"} /\ path = <<"health">> THEN "health"
  ELSE IF method \in {"GET", "HEAD"} /\ distExists THEN
         IF path \in StaticFiles THEN "static" ELSE "index"
  ELSE ServerRoute(method, path)

\* The handler that takes the request: the files of dist are there to serve
\* only when the directory exists.
ServerRouteInDist(method, path, distExists) ==
  LET route == ServerRoute(method, path)
  IN  IF route = "static" /\ ~distExists THEN "index" ELSE route

\* Faulty variant of LocalResponse: the catch-all route answers every method.
LocalResponse_anyMethod(route, distExists) ==
  CASE route = "health" -> Response(200, "liveness")
    [] route = "static" -> Response(200, "file")
    [] OTHER -> IF distExists THEN Response(200, "index.html")
                ELSE Response(404, "Not Found")

\* The response of the handlers that answer by themselves: the liveness
\* route, express.static, the catch-all GET route (res.sendFile fails with
\* 404 when index.html is missing) and Express's final handler.
LocalResponse(route, distExists) ==
  CASE route = "health" -> Response(200, "liveness")
    [] route = "static" -> Response(200, "file")
    [] route = "index" -> IF distExists THEN Response(200, "index.html")
                          ELSE Response(404, "Not Found")
    [] OTHER -> Response(404, "Not Found")

\* Faulty variant of onError: the handler throws instead of answering.
onError_throws(route) == [responses |-> <<>>, running |-> FALSE]

\* onError of the two proxies.
onError(route) ==
  [responses |->
     <<IF route = "proxyApi" THEN Response(500, "Proxy error")
       ELSE Response(500, "Proxy error, message")>>,
   running |-> TRUE]

NewReq ==
  [pc |-> "new", method |-> "-", path |-> <<>>, kind |-> "-",
   route |-> "-", attempts |-> 0, failed |-> FALSE,
   upstream |-> NoUpstream, responses |-> <<>>]

ClosedReq == [NewReq EXCEPT !.pc = "closed"]

ServerStart(distExists) ==
  [running |-> TRUE, distExists |-> distExists, failures |-> 0,
   reqs |-> [r \in Reqs |-> NewReq]]

\* The middleware chain for one request, up to the response or to the
\* request forwarded upstream.
Request(r, method, path, b) ==
  /\ server.running
  /\ server.reqs[r].pc = "new"
  /\ \A q \in Reqs : q < r => server.reqs[q].pc # "new"
  /\ LET parsed == expressJson(b)
         route == ServerRouteInDist(method, path, server.distExists)
         req == [server.reqs[r] EXCEPT !.method = method, !.path = path,
                                       !.kind = b]
     IN  server' = [server EXCEPT !.reqs[r] =
           IF parsed.error
           THEN [req EXCEPT !.pc = "answered", !.route = "bodyParser",
                            !.responses = <<Response(400, "Bad Request")>>]
           ELSE IF route = "proxyApi"
           THEN [req EXCEPT !.pc = "forwarding", !.route = route,
                            !.attempts = @ + 1,
                            !.upstream = apiOnProxyReq(method, b, parsed)]
           ELSE IF route = "proxyOpenApi"
           THEN [req EXCEPT !.pc = "forwarding", !.route = route,
                            !.attempts = @ + 1,
                            !.upstream = openApiOnProxyReq(method, b, parsed)]
           ELSE [req EXCEPT !.pc = "answered", !.route = route,
                            !.responses =
                              <<LocalResponse(route, server.distExists)>>]]
  /\ UNCHANGED <<isProduction, storage, href, ops, probe>>

\* Responses of the upstream origin to a forwarded request.
UpstreamResponses == {"r200", "r401", "r500"}

\* The upstream answers; status and body are passed through.
ProxyRes(r, o) ==
  /\ server.running
  /\ server.reqs[r].pc = "forwarding"
  /\ Complete(server.reqs[r].upstream)
  /\ server' = [server EXCEPT !.reqs[r] =
       [@ EXCEPT !.pc = "answered",
                 !.responses = Append(@, Response(Status(o), o))]]
  /\ UNCHANGED <<isProduction, storage, href, ops, probe>>

\* The forwarding fails (no connection, reset, upstream timeout on a request
\* it never received whole): onError runs.
ProxyError(r) ==
  /\ server.running
  /\ server.reqs[r].pc = "forwarding"
  /\ LET e == onError(server.reqs[r].route)
     IN  server' = [server EXCEPT
           !.running = e.running,
           !.failures = @ + 1,
           !.reqs[r] = [@ EXCEPT !.pc = "answered", !.failed = TRUE,
                                 !.responses = @ \o e.responses]]
  /\ UNCHANGED <<isProduction, storage, href, ops, probe>>

\* The exchange is over.
RequestEnds(r) ==
  /\ server.running
  /\ server.reqs[r].pc = "answered"
  /\ server' = [server EXCEPT !.reqs[r] = ClosedReq]
  /\ UNCHANGED <<isProduction, storage, href, ops, probe>>

-----------------------------------------------------------------------------
(* testBackendConnection *)

ProbeNoResponses == {"netErr", "probeTimeout"}

\* axiosInstance.get('/health') goes to API_BASE_URL: the page's own origin
\* (the proxy/static server) in production, the backend origin otherwise.
ProbeOutcomes(prod, serverUp, backendUp) ==
  IF prod
  THEN IF serverUp THEN ServerAnswers("GET", <<"health">>, backendUp)
       ELSE ProbeNoResponses
  ELSE IF backendUp THEN BackendResponses ELSE ProbeNoResponses

\* Faulty variant of testBackendConnection: a 403 response is not counted as
\* a connection.
testBackendConnection_no403(settled) ==
  IF settled.kind = "fulfilled" THEN TRUE
  ELSE LET error == settled.value
       IN  IF Data(error) = "result2003" THEN TRUE
           ELSE IF Status(error) = 400 /\ Data(error) \in {"result2003", "result"}
                THEN TRUE
           ELSE IF Status(error) = 401 THEN TRUE
           ELSE FALSE

\* The value testBackendConnection returns for the settled probe call.
testBackendConnection(settled) ==
  IF settled.kind = "fulfilled" THEN TRUE
  ELSE LET error == settled.value
       IN  IF Data(error) = "result2003" THEN TRUE
           ELSE IF Status(error) = 400 /\ Data(error) \in {"result2003", "result"}
                THEN TRUE
           ELSE IF Status(error) = 401 \/ Status(error) = 403 THEN TRUE
           ELSE FALSE

NewProbe ==
  [pc |-> "inflight", header |-> "-", outcome |-> "-", settled |-> Pending,
   effects |-> NoEffects, backendUp |-> FALSE, result |-> FALSE]

ClosedProbe == [NewProbe EXCEPT !.pc = "closed"]

\* Faulty variant of ProbeSettles: the probe is sent on
\* fallbackAxiosInstance, which has no response interceptor.
ProbeSettles_onFallback(o, serverUp, backendUp) ==
  /\ ~InReaction
  /\ probe.pc = "inflight"
  /\ o \in ProbeOutcomes(isProduction, serverUp, backendUp)
  /\ LET r == FallbackPipeline(storage, href, o)
     IN  /\ storage' = r.storage
         /\ href' = r.href
         /\ probe' = [probe EXCEPT !.pc = "settled", !.outcome = o,
                                   !.settled = r.settled,
                                   !.effects = Effects(r),
                                   !.backendUp = backendUp]
  /\ UNCHANGED <<server, isProduction, ops>>

\* The probe call settles; the response interceptor of axiosInstance runs.
ProbeSettles(o, serverUp, backendUp) ==
  /\ ~InReaction
  /\ probe.pc = "inflight"
  /\ o \in ProbeOutcomes(isProduction, serverUp, backendUp)
  /\ LET r == PrimaryPipeline(storage, href, o)
     IN  /\ storage' = r.storage
         /\ href' = r.href
         /\ probe' = [probe EXCEPT !.pc = "settled", !.outcome = o,
                                   !.settled = r.settled,
                                   !.effects = Effects(r),
                                   !.backendUp = backendUp]
  /\ UNCHANGED <<server, isProduction, ops>>

\* The try block returns true, or the catch block classifies the error.
ProbeReturns ==
  /\ probe.pc = "settled"
  /\ probe' = [probe EXCEPT !.pc = "done",
                            !.result = testBackendConnection(probe.settled)]
  /\ UNCHANGED <<server, isProduction, storage, href, ops>>

\* The promise of the call made when the module is loaded is dropped.
ProbeDropped ==
  /\ probe.pc = "done"
  /\ probe' = ClosedProbe
  /\ UNCHANGED <<server, isProduction, storage, href, ops>>

-----------------------------------------------------------------------------

Tokens == [accessToken : {Null, "", "userToken"},
           storeUserAccessToken : {Null, "", "storeToken"},
           refreshToken : {Null, "refresh"}]

\* The state once the module is loaded: testBackendConnection() has been
\* called and its request is in flight, through the request interceptor.
Init ==
  /\ isProduction \in BOOLEAN
  /\ storage \in Tokens
  /\ href = "/"
  /\ ops = [i \in Ops |-> IdleOp]
  /\ probe = [NewProbe EXCEPT !.header = addRequestInterceptor(storage)]
  /\ server = ServerStart(TRUE)

Next ==
  \/ \E i \in Ops : get(i)
  \/ \E i \in Ops : post(i)
  \/ \E i \in Ops, o \in HopOutcomes : PrimarySettles(i, o)
  \/ \E i \in Ops : PrimaryReturn(i)
  \/ \E i \in Ops : CatchRetry(i)
  \/ \E i \in Ops : CatchThrow(i)
  \/ \E i \in Ops, o \in FallbackOutcomes : FallbackSettles(i, o)
  \/ \E i \in Ops : FallbackReturn(i)
  \/ \E i \in Ops : CallerReceives(i)
  \/ \E o \in ServerResponses \cup NoResponses, s \in BOOLEAN, b \in BOOLEAN :
       ProbeSettles(o, s, b)
  \/ ProbeReturns
  \/ ProbeDropped

Spec == Init /\ [][Next]_vars

\* The HTTP call that operation i has in flight settles.
OpSettles(i) ==
  \/ \E o \in HopOutcomes : PrimarySettles(i, o)
  \/ \E o \in FallbackOutcomes : FallbackSettles(i, o)

\* A promise reaction of operation i runs.
OpContinues(i) ==
  \/ PrimaryReturn(i)
  \/ CatchRetry(i)
  \/ CatchThrow(i)
  \/ FallbackReturn(i)
  \/ CallerReceives(i)

\* The probe's call settles or one of its promise reactions runs.
ProbeProgress ==
  \/ \E o \in ServerResponses \cup NoResponses, s \in BOOLEAN, b \in BOOLEAN :
       ProbeSettles(o, s, b)
  \/ ProbeReturns
  \/ ProbeDropped

\* Every dispatched call settles (with a response, an error, or the timeout
\* of 15 seconds) and every pending promise reaction is run by the event loop.
Fairness ==
  /\ \A i \in Ops : WF_vars(OpSettles(i)) /\ WF_vars(OpContinues(i))
  /\ WF_vars(ProbeProgress)

\* Termination does not depend on the stored tokens: one storage content.
LiveInit ==
  /\ isProduction \in BOOLEAN
  /\ storage = [accessToken |-> "userToken",
                storeUserAccessToken |-> "storeToken",
                refreshToken |-> "refresh"]
  /\ href = "/"
  /\ ops = [i \in Ops |-> IdleOp]
  /\ probe = [NewProbe EXCEPT !.header = addRequestInterceptor(storage)]
  /\ server = ServerStart(TRUE)

LiveSpec == LiveInit /\ [][Next]_vars /\ Fairness

\* The server by itself: it shares no state with the client.
ServerInit ==
  /\ isProduction = TRUE
  /\ storage = [k \in Keys |-> Null]
  /\ href = "/"
  /\ ops = [i \in Ops |-> IdleOp]
  /\ probe = [NewProbe EXCEPT !.header = NoHeader]
  /\ server \in {ServerStart(d) : d \in BOOLEAN}

ServerNext ==
  \/ \E r \in Reqs, m \in Methods, p \in Paths, b \in BodyKinds :
       Request(r, m, p, b)
  \/ \E r \in Reqs, o \in UpstreamResponses : ProxyRes(r, o)
  \/ \E r \in Reqs : ProxyError(r)
  \/ \E r \in Reqs : RequestEnds(r)

ServerSpec == ServerInit /\ [][ServerNext]_vars

-----------------------------------------------------------------------------
(* Properties *)

\* The operation i has dispatched its primary request and is not over.
Started(i) == ops[i].pc \notin {"idle", "closed"}

\* The error is of the network class: transport-level code ERR_NETWORK, or a
\* message containing "CORS" or "blocked".
NetworkClass(o) ==
  \/ Code(o) = "ERR_NETWORK"
  \/ Includes(Message(o), <<"C","O","R","S">>)
  \/ Includes(Message(o), <<"b","l","o","c","k","e","d">>)

\* C1: outside production mode no get or post ever dispatches a request on
\* the fallback client, whatever error the primary client raises, and the
\* operation rejects with the primary client's error.
C1_NoFallbackOutsideProduction ==
  ~isProduction =>
    \A i \in Ops :
      /\ ops[i].nFallback = 0
      /\ ops[i].pc \notin {"fallback", "fsettled"}
      /\ (ops[i].pc = "done" /\ Status(ops[i].pOutcome) \notin 200..299
            => ops[i].result = Rejected(ops[i].pOutcome))

C1_Witness ==
  /\ ~isProduction
  /\ \E i \in Ops : /\ ops[i].pc = "done"
                    /\ ops[i].method = "get"
                    /\ ops[i].result = Rejected("netErr")
  /\ \E i \in Ops : /\ ops[i].pc = "primary"
                    /\ ops[i].method = "post"

\* C2: in production mode, when get or post has retried on the fallback
\* client, the outcome of the operation is the outcome of the fallback hop:
\* its response unchanged if it succeeds, its error (not the primary's) if it
\* fails.
C2_FallbackOutcomeIsResult ==
  isProduction =>
    \A i \in Ops :
      (ops[i].pc = "done" /\ ops[i].nFallback = 1) =>
        /\ Status(ops[i].fOutcome) \in 200..299
             => ops[i].result = Fulfilled(ops[i].fOutcome)
        /\ Status(ops[i].fOutcome) \notin 200..299
             => ops[i].result = Rejected(ops[i].fOutcome)

C2_Witness ==
  /\ isProduction
  /\ \E i \in Ops : /\ ops[i].pc = "done"
                    /\ ops[i].nFallback = 1
                    /\ ops[i].pOutcome = "netErr"
                    /\ ops[i].result = Rejected("r500")

C4_OneHopPerClient ==
  \A i \in Ops :
    Started(i) =>
      /\ ops[i].nPrimary = 1
      /\ ops[i].nFallback \in {0, 1}
      /\ ops[i].nFallback = 1 => ops[i].primary.kind = "rejected"
      /\ ops[i].primary.kind = "fulfilled" =>
           ops[i].nFallback = 0 /\ ops[i].pc \in {"psettled", "done"}
      /\ ops[i].pc \in {"fallback", "fsettled"} => ops[i].nFallback = 1

C4_Witness ==
  \E i \in Ops : /\ ops[i].pc = "done"
                 /\ ops[i].nPrimary = 1
                 /\ ops[i].nFallback = 1
                 /\ ops[i].fallback.kind = "rejected"

\* The handling of a response removed accessToken and refreshToken, each by
\* one removeItem call, and assigned the login route to window.location.href
\* once.
ClearedOnce(e) ==
  /\ Len(e.removed) = 2
  /\ \E k \in 1..2 : e.removed[k] = "accessToken"
  /\ \E k \in 1..2 : e.removed[k] = "refreshToken"
  /\ e.navs = <<"/auth/login">>

\* C5: when the primary client receives a 401 response, accessToken and
\* refreshToken are removed and the navigation to /auth/login is issued
\* before the rejection reaches the caller, and the caller receives the
\* original 401 error.
C5_Primary401ClearsThenRejects ==
  \A i \in Ops :
    (ops[i].pc \in {"psettled", "done"} /\ ops[i].pOutcome = "r401") =>
      /\ ClearedOnce(ops[i].pEffects)
      /\ storage["accessToken"] = Null
      /\ storage["refreshToken"] = Null
      /\ href = "/auth/login"
      /\ ops[i].nFallback = 0
      /\ ops[i].pc = "done" => ops[i].result = Rejected("r401")

C5_Witness ==
  \E i \in Ops : /\ ops[i].pc = "done"
                 /\ ops[i].pHeader = "userToken"
                 /\ ops[i].result = Rejected("r401")
                 /\ storage["accessToken"] = Null

\* C6: for every 401 response received during a get or post, on the primary
\* hop or on the fallback hop, the credential entries are removed from
\* storage exactly once and a navigation to the login route is issued before
\* the rejection propagates to the caller.
C6_Every401Clears ==
  \A i \in Ops :
    /\ (ops[i].pc \in {"psettled", "done"} /\ ops[i].pOutcome = "r401")
         => ClearedOnce(ops[i].pEffects) /\ href = "/auth/login"
    /\ (ops[i].pc \in {"fsettled", "done"} /\ ops[i].fOutcome = "r401")
         => ClearedOnce(ops[i].fEffects) /\ href = "/auth/login"

\* C7: after a 401 response has been handled, accessToken and
\* storeUserAccessToken are both cleared, so that a request dispatched
\* afterwards carries no authorization-token header.
C7_NoTokenAfter401 ==
  /\ Handled401 => /\ ~Truthy(storage["accessToken"])
                   /\ ~Truthy(storage["storeUserAccessToken"])
  /\ \A i \in Ops :
       /\ (Started(i) /\ ops[i].pAfter401) => ops[i].pHeader = NoHeader
       /\ (ops[i].nFallback = 1 /\ ops[i].fAfter401) => ops[i].fHeader = NoHeader

\* C8 as stated: testBackendConnection returns true whenever any response is
\* received, whatever its status and body, and false only when none is.
C8_TrueIffAnyResponse ==
  probe.pc = "done" => (probe.result <=> Status(probe.outcome) # 0)

\* C8 amended: testBackendConnection returns true when the probe receives a
\* 2xx response, a response whose body carries result code 2003, a 400
\* response whose body has a result object, or a 401 or 403 response; it
\* returns false for every other response and when no response is received.
C8_TrueForRecognisedResponses ==
  probe.pc = "done" =>
    (probe.result <=>
       \/ Status(probe.outcome) \in 200..299
       \/ Data(probe.outcome) = "result2003"
       \/ Status(probe.outcome) = 400 /\ Data(probe.outcome) = "result"
       \/ Status(probe.outcome) \in {401, 403})

C8_Witness ==
  /\ probe.pc = "done"
  /\ probe.outcome = "r403"
  /\ probe.result

\* C9: in production mode testBackendConnection returns false whenever the
\* backend origin gives no response.
C9_FalseWhenBackendSilent ==
  (isProduction /\ probe.pc = "done" /\ ~probe.backendUp) => ~probe.result

\* The header the claim C10 names for a state of localStorage.
HeaderByPresence(st) ==
  IF st["accessToken"] \notin {Null, ""} THEN st["accessToken"]
  ELSE IF st["storeUserAccessToken"] \notin {Null, ""}
       THEN st["storeUserAccessToken"]
  ELSE NoHeader

\* C10: every request dispatched by either client carries as
\* authorization-token header the accessToken value if it is non-empty,
\* otherwise the storeUserAccessToken value if it is non-empty, otherwise no
\* header; the choice does not depend on the request's method or client.
C10_HeaderByPresence ==
  /\ probe.header = HeaderByPresence(storage)
  /\ [][\A i \in Ops :
          /\ (ops[i].pc = "idle" /\ ops'[i].pc = "primary")
               => ops'[i].pHeader = HeaderByPresence(storage)
          /\ (ops[i].pc = "psettled" /\ ops'[i].pc = "fallback")
               => ops'[i].fHeader = HeaderByPresence(storage)]_vars

C10_Witness ==
  \E i \in Ops : /\ ops[i].pc = "fallback"
                 /\ ops[i].pHeader = "userToken"
                 /\ ops[i].fHeader = "storeToken"

\* The step is the receipt of a 401 response by one of the client's calls.
Receives401 ==
  \/ \E i \in Ops : /\ ops[i].pc = "primary"
                    /\ ops'[i].pc = "psettled"
                    /\ ops'[i].pOutcome = "r401"
  \/ \E i \in Ops : /\ ops[i].pc = "fallback"
                    /\ ops'[i].pc = "fsettled"
                    /\ ops'[i].fOutcome = "r401"
  \/ /\ probe.pc = "inflight"
     /\ probe'.pc = "settled"
     /\ probe'.outcome = "r401"

\* C11: the client changes credential storage and navigates only as the
\* effect of a 401 response: every step of get and post operations in which
\* no 401 response is received (calls, retries on the fallback, failures with
\* other errors) leaves accessToken, storeUserAccessToken and refreshToken
\* unchanged and issues no navigation.
C11_StorageChangesOnlyOn401 ==
  [][(storage' # storage \/ href' # href) => Receives401]_vars

C11_Witness ==
  /\ ops[1].pc = "closed"
  /\ \E i \in Ops : /\ ops[i].pc = "done"
                    /\ ops[i].method = "get"
                    /\ ops[i].nFallback = 1
                    /\ ops[i].result = Rejected("r500")
  /\ storage["accessToken"] = "userToken"
  /\ storage["storeUserAccessToken"] = "storeToken"
  /\ storage["refreshToken"] = "refresh"
  /\ href = "/"

\* The server has taken the request r through its middleware chain.
Handled(r) == server.reqs[r].pc \in {"forwarding", "answered"}

UnderProxyPrefix(path) == path # <<>> /\ path[1] \in {"api", "open-api"}

\* C12: for every POST with a JSON body received under /api or /open-api,
\* the proxy writes the re-serialized JSON body to the upstream request and
\* sets Content-Length to its byte length, so that the upstream receives the
\* complete body.
C12_PostBodyReserialized ==
  \A r \in Reqs :
    (/\ Handled(r)
     /\ server.reqs[r].method = "POST"
     /\ server.reqs[r].kind = "json"
     /\ UnderProxyPrefix(server.reqs[r].path)) =>
      /\ server.reqs[r].upstream.written =
           <<"{", "\"", "a", "\"", ":", "\"", "U+00E9", "\"", "}">>
      /\ server.reqs[r].upstream.contentLength = 10

\* The request was answered from static hosting: a file of dist or the entry
\* document.
FromStatic(r) ==
  \E k \in 1..Len(server.reqs[r].responses) :
    server.reqs[r].responses[k].payload \in {"file", "index.html"}

\* The precedence of C13 for the request r.
Precedence(r) ==
  /\ (server.reqs[r].method = "GET" /\ server.reqs[r].path = <<"health">>)
       => /\ server.reqs[r].responses = <<Response(200, "liveness")>>
          /\ server.reqs[r].attempts = 0
  /\ UnderProxyPrefix(server.reqs[r].path)
       => /\ server.reqs[r].attempts = 1
          /\ ~FromStatic(r)
  /\ FromStatic(r)
       => /\ server.reqs[r].path # <<"health">>
          /\ ~UnderProxyPrefix(server.reqs[r].path)

\* C13 as stated: every request goes to one handler in a fixed precedence:
\* GET /health is always answered locally with the liveness payload, every
\* request under /api or /open-api is forwarded upstream and never answered
\* from static hosting, and only the other requests reach static hosting.
C13_Precedence == \A r \in Reqs : Handled(r) => Precedence(r)

\* C13 amended: the precedence holds for every request whose body the body
\* parser accepts; a request with a malformed JSON body is answered 400 by
\* the body parser, before any route, and is not forwarded.
C13_PrecedenceAfterBodyParser ==
  \A r \in Reqs :
    Handled(r) =>
      IF server.reqs[r].kind = "malformed"
      THEN /\ server.reqs[r].responses = <<Response(400, "Bad Request")>>
           /\ server.reqs[r].attempts = 0
      ELSE Precedence(r)

C13_Witness ==
  /\ \E r \in Reqs : /\ server.reqs[r].pc = "forwarding"
                     /\ server.reqs[r].method = "DELETE"
                     /\ server.reqs[r].path = <<"api", "orders">>
  /\ \E r \in Reqs : /\ server.reqs[r].pc = "answered"
                     /\ server.reqs[r].method = "GET"
                     /\ server.reqs[r].path = <<"health">>
                     /\ server.reqs[r].kind = "json"
                     /\ server.reqs[r].responses = <<Response(200, "liveness")>>

\* The request r is for a path that is not /health and not under /api or
\* /open-api.
OtherPath(r) ==
  /\ server.reqs[r].path # <<"health">>
  /\ ~UnderProxyPrefix(server.reqs[r].path)

\* The request r is answered with the matching static file if there is one
\* and with the entry document otherwise, with status 200.
FileOrEntry(r) ==
  server.reqs[r].responses =
    <<IF server.distExists /\ server.reqs[r].path \in StaticFiles
      THEN Response(200, "file")
      ELSE Response(200, "index.html")>>

-----------------------------------------------------------------------------
(* Termination, the probe's 401 handling, the header of the retry *)

\* C16: provided every dispatched HTTP call eventually settles, every get or
\* post operation that was called eventually settles too, with a response or
\* with a rejection delivered to its caller; no failure of the primary or of
\* the fallback call ends the operation otherwise.
C16_EveryOperationSettles ==
  \A i \in Ops :
    (ops[i].pc = "primary") ~>
      (ops[i].pc = "done" /\ ops[i].result.kind \in {"fulfilled", "rejected"})

C16_Witness ==
  /\ \E i \in Ops : /\ ops[i].pc = "done"
                    /\ ops[i].pOutcome = "timeout"
                    /\ ops[i].nFallback = 0
                    /\ ops[i].result = Rejected("timeout")
  /\ \E j \in Ops : /\ ops[j].pc = "fallback"
                    /\ ops[j].pOutcome = "netErr"

\* C17: the probe goes through the 401 handling of the primary client: when
\* it receives a 401 response, accessToken and refreshToken are removed and
\* the navigation to /auth/login is issued before the probe returns, and the
\* probe returns true; the receipt of any other outcome by the probe leaves
\* storage and location unchanged.
C17_ProbePasses401Handling ==
  /\ []((probe.pc \in {"settled", "done"} /\ probe.outcome = "r401") =>
          /\ ClearedOnce(probe.effects)
          /\ storage["accessToken"] = Null
          /\ storage["refreshToken"] = Null
          /\ href = "/auth/login"
          /\ probe.pc = "done" => probe.result)
  /\ []((probe.pc \in {"settled", "done"} /\ probe.outcome # "r401") =>
          probe.effects = NoEffects)
  /\ [][(/\ probe.pc = "inflight"
         /\ probe'.pc = "settled"
         /\ probe'.outcome # "r401") => (storage' = storage /\ href' = href)]_vars

C17_Witness ==
  /\ probe.pc = "done"
  /\ probe.header = "userToken"
  /\ probe.outcome = "r401"
  /\ probe.result
  /\ storage["accessToken"] = Null
  /\ storage["storeUserAccessToken"] = "storeToken"
  /\ href = "/auth/login"

\* C18 as stated: within one operation that retries, the fallback request
\* carries the same authorization-token header as the primary request, also
\* when other requests complete between the two.
C18_SameHeaderOnBothHops ==
  \A i \in Ops : ops[i].nFallback = 1 => ops[i].fHeader = ops[i].pHeader

\* C18 amended: the fallback request carries the same header as the primary
\* request when no 401 response was handled between the two dispatches (and
\* when one had been handled before both); when the first 401 response was
\* handled between them, the fallback's header is chosen anew from the
\* storage that handling left: the storeUserAccessToken value, or none.
C18_HeaderChosenAtEachDispatch ==
  \A i \in Ops :
    ops[i].nFallback = 1 =>
      /\ (ops[i].pAfter401 = ops[i].fAfter401)
           => ops[i].fHeader = ops[i].pHeader
      /\ (~ops[i].pAfter401 /\ ops[i].fAfter401)
           => /\ ops[i].fHeader = addRequestInterceptor(storage)
              /\ ops[i].fHeader \in {"storeToken", NoHeader}

C18_Witness ==
  \E i \in Ops :
    /\ ops[i].pc = "fsettled"
    /\ ~ops[i].pAfter401
    /\ ops[i].fAfter401
    /\ ops[i].pHeader = "userToken"
    /\ ops[i].fHeader = "storeToken"
    /\ \E j \in Ops : j # i /\ ops[j].pc = "closed"

====
